---- MODULE Spec2Model ----
(***************************************************************************)
(* Model of src/paths.rs of the openapiv3 crate: the PathItem and Paths    *)
(* records, their serde decoding and encoding, and their traversals.       *)
(*                                                                         *)
(* Rust Strings are sequences of one-character strings, so that            *)
(* str::starts_with is computed and not assumed.  Option<T> is a sequence  *)
(* of length 0 (None) or 1 (Some).  Vec<T> and IndexMap<K, V> are          *)
(* sequences (an IndexMap is a sequence of entries with unique keys).      *)
(***************************************************************************)
EXTENDS Naturals, Sequences, FiniteSets

VARIABLES preserve_order, keeps_dynamic, src, item, paths, yielded, out, last

vars == <<preserve_order, keeps_dynamic, src, item, paths, yielded, out, last>>

-----------------------------------------------------------------------------
(* serde_json::Value: the generic value tree.                              *)

VNull == [kind |-> "null", str |-> <<>>, items |-> <<>>, entries |-> <<>>]
VStr(s) == [kind |-> "str", str |-> s, items |-> <<>>, entries |-> <<>>]
VNum(s) == [kind |-> "num", str |-> s, items |-> <<>>, entries |-> <<>>]
VList(xs) == [kind |-> "list", str |-> <<>>, items |-> xs, entries |-> <<>>]
VObj(es) == [kind |-> "obj", str |-> <<>>, items |-> <<>>, entries |-> es]

Entry(k, v) == [key |-> k, val |-> v]

Keys(es) == {es[i].key : i \in 1..Len(es)}

\* Map::get: the value stored under key k, as an Option.
Lookup(es, k) ==
  LET hits == SelectSeq(es, LAMBDA e : e.key = k)
  IN IF hits = <<>> THEN <<>> ELSE <<hits[1].val>>

\* Result<T, E>; the error's text is not modelled.
Ok(x) == [ok |-> TRUE, val |-> x]
Err == [ok |-> FALSE, val |-> <<>>]

-----------------------------------------------------------------------------
(* Names: the field names of PathItem, the literals of its iterators and   *)
(* the keys used by the inputs.                                            *)

N_summary == <<"s", "u", "m", "m", "a", "r", "y">>
N_description == <<"d", "e", "s", "c", "r", "i", "p", "t", "i", "o", "n">>
N_get == <<"g", "e", "t">>
N_put == <<"p", "u", "t">>
N_post == <<"p", "o", "s", "t">>
N_delete == <<"d", "e", "l", "e", "t", "e">>
N_options == <<"o", "p", "t", "i", "o", "n", "s">>
N_head == <<"h", "e", "a", "d">>
N_patch == <<"p", "a", "t", "c", "h">>
N_trace == <<"t", "r", "a", "c", "e">>
N_servers == <<"s", "e", "r", "v", "e", "r", "s">>
N_parameters == <<"p", "a", "r", "a", "m", "e", "t", "e", "r", "s">>
N_ref == <<"$", "r", "e", "f">>
N_operationId == <<"o", "p", "e", "r", "a", "t", "i", "o", "n", "I", "d">>
N_url == <<"u", "r", "l">>
N_name == <<"n", "a", "m", "e">>

\* str::starts_with(char)
starts_with(s, c) == Len(s) > 0 /\ s[1] = c

-----------------------------------------------------------------------------
(* serde decoders of the declared field types.                             *)

\* String: only a JSON string decodes.
decode_String(v) == IF v.kind = "str" THEN Ok(v.str) ELSE Err

\* Some(x) of a decoded x; an error stays an error.
some(r) == IF r.ok THEN Ok(<<r.val>>) ELSE Err

\* A sequence of results as the result of a sequence: the first error wins.
collect(rs) ==
  IF \A i \in 1..Len(rs) : rs[i].ok
  THEN Ok([i \in 1..Len(rs) |-> rs[i].val])
  ELSE Err

\* Option<String>: null is None, anything else is decoded as a String.
decode_OptionString(v) ==
  IF v.kind = "null" THEN Ok(<<>>) ELSE some(decode_String(v))

-----------------------------------------------------------------------------
(* The flattened fields of the derived Deserialize and Serialize.           *)

\* #[serde(flatten)] on decoding: the entries whose key names no field of
\* the struct are buffered, and every flattened field is decoded from all of
\* them; a map visitor of one flattened field takes nothing away from the
\* next one.
flatten(es, fields) == SelectSeq(es, LAMBDA e : e.key \notin fields)

\* The closure of deserialize_paths: |key: &String| key.starts_with('/')
path_key_predicate(key) == starts_with(key, "/")

\* crate::util::deserialize_extensions: the capture of the extension
\* entries, one function for every record type.  It keeps the entries it
\* is handed in source order, each with its raw value, and never fails on a
\* key.  A key that the predicate of deserialize_paths does not accept is
\* always kept.  A '/'-prefixed key reaches it too, in a Paths object and
\* in any other record; kd is what it does with such a key, the same at
\* every call: TRUE when it keeps it, FALSE when it leaves it out.
deserialize_extensions(es, kd) ==
  Ok(SelectSeq(es, LAMBDA e : kd \/ ~path_key_predicate(e.key)))

\* The characters of the keys, in ascending order of their code points.
CodePoints ==
  <<"$", "-", "/", "I", "a", "b", "c", "d", "e", "f", "g", "h", "i", "j",
    "k", "l", "m", "n", "o", "p", "q", "r", "s", "t", "u", "v", "w", "x",
    "y", "z">>

ord(c) == CHOOSE i \in 1..Len(CodePoints) : CodePoints[i] = c

\* <String as Ord>::lt: the order of the keys of a sorted map.
RECURSIVE key_lt(_, _)
key_lt(s, t) ==
  IF t = <<>> THEN FALSE
  ELSE IF s = <<>> THEN TRUE
  ELSE IF s[1] = t[1] THEN key_lt(Tail(s), Tail(t))
  ELSE ord(s[1]) < ord(t[1])

\* serde_json::Map::insert.  A key already present keeps its place and takes
\* the new value.  A new key is appended when the map preserves the order
\* of insertion (serde_json built with preserve_order, Map = IndexMap), and
\* is put at its place in the order of the keys otherwise (the default
\* build, Map = BTreeMap).
insert(m, e, po) ==
  IF e.key \in Keys(m)
  THEN [i \in 1..Len(m) |-> IF m[i].key = e.key THEN e ELSE m[i]]
  ELSE IF po THEN Append(m, e)
  ELSE SelectSeq(m, LAMBDA x : key_lt(x.key, e.key))
       \o <<e>>
       \o SelectSeq(m, LAMBDA x : key_lt(e.key, x.key))

\* SerializeMap::serialize_entry for each entry in turn, into the map m.
RECURSIVE serialize_entries(_, _, _)
serialize_entries(m, es, po) ==
  IF es = <<>> THEN m ELSE serialize_entries(insert(m, es[1], po), Tail(es), po)

-----------------------------------------------------------------------------
(* ReferenceOr<T>.                                                         *)

Reference(target) == [variant |-> "Reference", reference |-> target, item |-> <<>>]
Item(x) == [variant |-> "Item", reference |-> <<>>, item |-> <<x>>]

\* Faulty variant of is_reference: a reference as soon as "$ref" is a key.
is_reference_hasref(v) == N_ref \in Keys(v.entries)

\* The discrimination rule: an object is a reference iff its key set is
\* exactly {"$ref"}.
is_reference(v) == Keys(v.entries) = {N_ref}

\* The Reference variant of a reference object; the locator must be a string.
decode_Reference(v) ==
  LET t == decode_String(Lookup(v.entries, N_ref)[1])
  IN IF t.ok THEN Ok(Reference(t.val)) ELSE Err

\* The Inline variant of a decoded payload.
inline(r) == IF r.ok THEN Ok(Item(r.val)) ELSE Err

serialize_Reference(n) == VObj(<<Entry(N_ref, VStr(n.reference))>>)

-----------------------------------------------------------------------------
(* The payload types Operation, Server and Parameter: each decodes from an *)
(* object and encodes back; only one named field of each is modelled.      *)

Operation(id, ext) == [operation_id |-> id, extensions |-> ext]

deserialize_Operation(v, kd) ==
  IF v.kind # "obj" THEN Err
  ELSE LET hit == Lookup(v.entries, N_operationId)
           id == IF hit = <<>> THEN Ok(<<>>) ELSE decode_OptionString(hit[1])
           ext == deserialize_extensions(flatten(v.entries, {N_operationId}), kd)
       IN IF id.ok THEN Ok(Operation(id.val, ext.val)) ELSE Err

serialize_Operation(op, po) ==
  VObj(serialize_entries(<<>>,
         (IF op.operation_id = <<>> THEN <<>>
          ELSE <<Entry(N_operationId, VStr(op.operation_id[1]))>>)
         \o op.extensions, po))

deserialize_Server(v, kd) ==
  IF v.kind # "obj" THEN Err
  ELSE LET hit == Lookup(v.entries, N_url)
           url == IF hit = <<>> THEN Err ELSE decode_String(hit[1])
           ext == deserialize_extensions(flatten(v.entries, {N_url}), kd)
       IN IF url.ok THEN Ok([url |-> url.val, extensions |-> ext.val]) ELSE Err

serialize_Server(s, po) ==
  VObj(serialize_entries(<<>>, <<Entry(N_url, VStr(s.url))>> \o s.extensions, po))

deserialize_Parameter(v, kd) ==
  IF v.kind # "obj" THEN Err
  ELSE LET hit == Lookup(v.entries, N_name)
           name == IF hit = <<>> THEN Err ELSE decode_String(hit[1])
           ext == deserialize_extensions(flatten(v.entries, {N_name}), kd)
       IN IF name.ok THEN Ok([name |-> name.val, extensions |-> ext.val]) ELSE Err

serialize_Parameter(p, po) ==
  VObj(serialize_entries(<<>>, <<Entry(N_name, VStr(p.name))>> \o p.extensions, po))

-----------------------------------------------------------------------------
(* PathItem.                                                               *)

\* The named fields of the struct, in declaration order.
PathItemFieldOrder ==
  <<N_summary, N_description, N_get, N_put, N_post, N_delete, N_options,
    N_head, N_patch, N_trace, N_servers, N_parameters>>

PathItemFields == {PathItemFieldOrder[i] : i \in 1..Len(PathItemFieldOrder)}

\* PathItem::default()
PathItem_default ==
  [summary |-> <<>>, description |-> <<>>,
   get |-> <<>>, put |-> <<>>, post |-> <<>>, delete |-> <<>>,
   options |-> <<>>, head |-> <<>>, patch |-> <<>>, trace |-> <<>>,
   servers |-> <<>>, parameters |-> <<>>, extensions |-> <<>>]

\* Option<Operation>: null is None, anything else is decoded as an Operation.
decode_OptionOperation(v, kd) ==
  IF v.kind = "null" THEN Ok(<<>>) ELSE some(deserialize_Operation(v, kd))

\* Vec<Server>: only a JSON list decodes, and every element must decode.
decode_VecServer(v, kd) ==
  IF v.kind # "list" THEN Err
  ELSE collect([i \in 1..Len(v.items) |-> deserialize_Server(v.items[i], kd)])

\* ReferenceOr<Parameter>
decode_ReferenceOrParameter(v, kd) ==
  IF v.kind # "obj" THEN Err
  ELSE IF is_reference(v) THEN decode_Reference(v)
  ELSE inline(deserialize_Parameter(v, kd))

\* Vec<ReferenceOr<Parameter>>
decode_VecParameter(v, kd) ==
  IF v.kind # "list" THEN Err
  ELSE collect([i \in 1..Len(v.items) |-> decode_ReferenceOrParameter(v.items[i], kd)])

\* Faulty variant of field_OptionString: a value that does not decode is taken as
\* absent.
field_OptionString_lenient(es, k) ==
  LET hit == Lookup(es, k)
  IN IF hit = <<>> THEN Ok(<<>>)
     ELSE IF decode_OptionString(hit[1]).ok THEN decode_OptionString(hit[1])
     ELSE Ok(<<>>)

\* A named field of the derived Deserialize, by declared type: an absent key
\* gives None (Option) or the default (#[serde(default)] Vec), a present key
\* is decoded by the type.
field_OptionString(es, k) ==
  LET hit == Lookup(es, k)
  IN IF hit = <<>> THEN Ok(<<>>) ELSE decode_OptionString(hit[1])

field_OptionOperation(es, k, kd) ==
  LET hit == Lookup(es, k)
  IN IF hit = <<>> THEN Ok(<<>>) ELSE decode_OptionOperation(hit[1], kd)

field_VecServer(es, k, kd) ==
  LET hit == Lookup(es, k)
  IN IF hit = <<>> THEN Ok(<<>>) ELSE decode_VecServer(hit[1], kd)

field_VecParameter(es, k, kd) ==
  LET hit == Lookup(es, k)
  IN IF hit = <<>> THEN Ok(<<>>) ELSE decode_VecParameter(hit[1], kd)

\* #[derive(Deserialize)] for PathItem: each named field is decoded by its
\* declared type and any failure fails the whole record; the entries that
\* name no field are handed to the flattened extensions field.
deserialize_PathItem(v, kd) ==
  IF v.kind # "obj" THEN Err
  ELSE
    LET es == v.entries
        summary == field_OptionString(es, N_summary)
        description == field_OptionString(es, N_description)
        get == field_OptionOperation(es, N_get, kd)
        put == field_OptionOperation(es, N_put, kd)
        post == field_OptionOperation(es, N_post, kd)
        delete == field_OptionOperation(es, N_delete, kd)
        options == field_OptionOperation(es, N_options, kd)
        head == field_OptionOperation(es, N_head, kd)
        patch == field_OptionOperation(es, N_patch, kd)
        trace == field_OptionOperation(es, N_trace, kd)
        servers == field_VecServer(es, N_servers, kd)
        parameters == field_VecParameter(es, N_parameters, kd)
        extensions == deserialize_extensions(flatten(es, PathItemFields), kd)
    IN IF /\ summary.ok /\ description.ok
          /\ get.ok /\ put.ok /\ post.ok /\ delete.ok
          /\ options.ok /\ head.ok /\ patch.ok /\ trace.ok
          /\ servers.ok /\ parameters.ok /\ extensions.ok
       THEN Ok([summary |-> summary.val, description |-> description.val,
                get |-> get.val, put |-> put.val, post |-> post.val,
                delete |-> delete.val, options |-> options.val,
                head |-> head.val, patch |-> patch.val, trace |-> trace.val,
                servers |-> servers.val, parameters |-> parameters.val,
                extensions |-> extensions.val])
       ELSE Err

\* Option<String> with skip_serializing_if = "Option::is_none"
ser_OptionString(k, o) == IF o = <<>> THEN <<>> ELSE <<Entry(k, VStr(o[1]))>>

\* Faulty variant of ser_OptionOperation: None is written as null.
ser_OptionOperation_null(k, o, po) ==
  IF o = <<>> THEN <<Entry(k, VNull)>> ELSE <<Entry(k, serialize_Operation(o[1], po))>>

\* Option<Operation> with skip_serializing_if = "Option::is_none"
ser_OptionOperation(k, o, po) ==
  IF o = <<>> THEN <<>> ELSE <<Entry(k, serialize_Operation(o[1], po))>>

\* Faulty variant of ser_VecServer: an empty list is written.
ser_VecServer_always(k, xs, po) ==
  <<Entry(k, VList([i \in 1..Len(xs) |-> serialize_Server(xs[i], po)]))>>

\* Vec<Server> with skip_serializing_if = "Vec::is_empty"
ser_VecServer(k, xs, po) ==
  IF xs = <<>> THEN <<>>
  ELSE <<Entry(k, VList([i \in 1..Len(xs) |-> serialize_Server(xs[i], po)]))>>

serialize_ReferenceOrParameter(n, po) ==
  IF n.variant = "Reference" THEN serialize_Reference(n)
  ELSE serialize_Parameter(n.item[1], po)

\* Vec<ReferenceOr<Parameter>> with skip_serializing_if = "Vec::is_empty"
ser_VecParameter(k, xs, po) ==
  IF xs = <<>> THEN <<>>
  ELSE <<Entry(k, VList([i \in 1..Len(xs) |-> serialize_ReferenceOrParameter(xs[i], po)]))>>

\* Faulty variant of serialize_PathItem: the extensions are not written.
serialize_PathItem_noext(self, po) ==
  VObj(serialize_entries(<<>>,
       ser_OptionString(N_summary, self.summary)
       \o ser_OptionString(N_description, self.description)
       \o ser_OptionOperation(N_get, self.get, po)
       \o ser_OptionOperation(N_put, self.put, po)
       \o ser_OptionOperation(N_post, self.post, po)
       \o ser_OptionOperation(N_delete, self.delete, po)
       \o ser_OptionOperation(N_options, self.options, po)
       \o ser_OptionOperation(N_head, self.head, po)
       \o ser_OptionOperation(N_patch, self.patch, po)
       \o ser_OptionOperation(N_trace, self.trace, po)
       \o ser_VecServer(N_servers, self.servers, po)
       \o ser_VecParameter(N_parameters, self.parameters, po), po))

\* #[derive(Serialize)] for PathItem: the named fields in declaration order,
\* each skipped when absent or empty, then the entries of the flattened
\* extensions.
serialize_PathItem(self, po) ==
  VObj(serialize_entries(<<>>,
         ser_OptionString(N_summary, self.summary)
         \o ser_OptionString(N_description, self.description)
         \o ser_OptionOperation(N_get, self.get, po)
         \o ser_OptionOperation(N_put, self.put, po)
         \o ser_OptionOperation(N_post, self.post, po)
         \o ser_OptionOperation(N_delete, self.delete, po)
         \o ser_OptionOperation(N_options, self.options, po)
         \o ser_OptionOperation(N_head, self.head, po)
         \o ser_OptionOperation(N_patch, self.patch, po)
         \o ser_OptionOperation(N_trace, self.trace, po)
         \o ser_VecServer(N_servers, self.servers, po)
         \o ser_VecParameter(N_parameters, self.parameters, po)
         \o self.extensions, po))

\* Iterator::filter_map over (method, Option) pairs: Some(op) -> (method, op).
RECURSIVE filter_map(_)
filter_map(v) ==
  IF v = <<>> THEN <<>>
  ELSE (IF v[1][2] = <<>> THEN <<>> ELSE << <<v[1][1], v[1][2][1]>> >>)
       \o filter_map(Tail(v))

\* Faulty variant of iter: put and post are listed in the other order.
iter_swapped(self) ==
  filter_map(<< <<N_get, self.get>>,
                <<N_post, self.post>>,
                <<N_put, self.put>>,
                <<N_delete, self.delete>>,
                <<N_options, self.options>>,
                <<N_head, self.head>>,
                <<N_patch, self.patch>>,
                <<N_trace, self.trace>> >>)

\* PathItem::iter
iter(self) ==
  filter_map(<< <<N_get, self.get>>,
                <<N_put, self.put>>,
                <<N_post, self.post>>,
                <<N_delete, self.delete>>,
                <<N_options, self.options>>,
                <<N_head, self.head>>,
                <<N_patch, self.patch>>,
                <<N_trace, self.trace>> >>)

\* filter_map with Option::as_mut: Some -> (method, &mut op); the mutable
\* reference is the name of the field it borrows.
RECURSIVE filter_map_mut(_)
filter_map_mut(v) ==
  IF v = <<>> THEN <<>>
  ELSE (IF v[1][3] = <<>> THEN <<>> ELSE << <<v[1][1], v[1][2]>> >>)
       \o filter_map_mut(Tail(v))

\* Faulty variant of iter_mut: the reference to post is labelled "put".
iter_mut_dupname(self) ==
  filter_map_mut(<< <<N_get, "get", self.get>>,
                    <<N_put, "put", self.put>>,
                    <<N_put, "post", self.post>>,
                    <<N_delete, "delete", self.delete>>,
                    <<N_options, "options", self.options>>,
                    <<N_head, "head", self.head>>,
                    <<N_patch, "patch", self.patch>>,
                    <<N_trace, "trace", self.trace>> >>)

\* PathItem::iter_mut: (method, &mut self.<field>) for the populated fields.
iter_mut(self) ==
  filter_map_mut(<< <<N_get, "get", self.get>>,
                    <<N_put, "put", self.put>>,
                    <<N_post, "post", self.post>>,
                    <<N_delete, "delete", self.delete>>,
                    <<N_options, "options", self.options>>,
                    <<N_head, "head", self.head>>,
                    <<N_patch, "patch", self.patch>>,
                    <<N_trace, "trace", self.trace>> >>)

\* Faulty variant of into_iter: trace is not listed.
into_iter_no_trace(self) ==
  filter_map(<< <<N_get, self.get>>,
                <<N_put, self.put>>,
                <<N_post, self.post>>,
                <<N_delete, self.delete>>,
                <<N_options, self.options>>,
                <<N_head, self.head>>,
                <<N_patch, self.patch>> >>)

\* <PathItem as IntoIterator>::into_iter
into_iter(self) ==
  filter_map(<< <<N_get, self.get>>,
                <<N_put, self.put>>,
                <<N_post, self.post>>,
                <<N_delete, self.delete>>,
                <<N_options, self.options>>,
                <<N_head, self.head>>,
                <<N_patch, self.patch>>,
                <<N_trace, self.trace>> >>)

\* A write a caller makes through the i-th reference iter_mut handed out
\* (*op = w); i = 0 stands for a traversal that writes nothing.
write_through(self, refs, i, w) ==
  IF i = 0 THEN self ELSE [self EXCEPT ![refs[i][2]] = <<w>>]

-----------------------------------------------------------------------------
(* Paths.                                                                  *)

\* ReferenceOr<PathItem>
decode_ReferenceOrPathItem(v, kd) ==
  IF v.kind # "obj" THEN Err
  ELSE IF is_reference(v) THEN decode_Reference(v)
  ELSE inline(deserialize_PathItem(v, kd))

\* The map visitor of the dynamic entries, for values of type
\* ReferenceOr<PathItem>: every entry whose key is in dynamic, in source
\* order, with its value decoded; a value that does not decode is fatal, an
\* entry whose key is not in dynamic is passed over.
PredicateVisitor(es, dynamic, kd) ==
  LET dyn == SelectSeq(es, LAMBDA e : e.key \in dynamic)
      rs == collect([i \in 1..Len(dyn) |-> decode_ReferenceOrPathItem(dyn[i].val, kd)])
  IN IF rs.ok
     THEN Ok([i \in 1..Len(dyn) |-> Entry(dyn[i].key, rs.val[i])])
     ELSE Err

\* deserialize_paths: the PredicateVisitor over the '/'-prefixed keys, with
\* values of type ReferenceOr<PathItem>.
deserialize_paths(es, kd) ==
  PredicateVisitor(es, {k \in Keys(es) : path_key_predicate(k)}, kd)

\* #[derive(Deserialize)] for Paths: there is no named field; each of the
\* two flattened fields is decoded from all the entries of the source
\* object, so the extension capture is handed the '/' entries as well.
deserialize_Paths(v, kd) ==
  IF v.kind # "obj" THEN Err
  ELSE
    LET rest == flatten(v.entries, {})
        p == deserialize_paths(rest, kd)
        extensions == deserialize_extensions(rest, kd)
    IN IF p.ok /\ extensions.ok
       THEN Ok([paths |-> p.val, extensions |-> extensions.val])
       ELSE Err

serialize_ReferenceOrPathItem(n, po) ==
  IF n.variant = "Reference" THEN serialize_Reference(n)
  ELSE serialize_PathItem(n.item[1], po)

\* #[derive(Serialize)] for Paths: the entries of the flattened paths map,
\* then the entries of the flattened extensions map.
serialize_Paths(self, po) ==
  VObj(serialize_entries(<<>>,
         [i \in 1..Len(self.paths) |->
            Entry(self.paths[i].key, serialize_ReferenceOrPathItem(self.paths[i].val, po))]
         \o self.extensions, po))

\* Paths::iter: self.paths.iter()
Paths_iter(self) ==
  [i \in 1..Len(self.paths) |-> <<self.paths[i].key, self.paths[i].val>>]

\* Faulty variant of Paths_into_iter: the entries are yielded last to first.
Paths_into_iter_rev(self) ==
  [i \in 1..Len(self.paths) |->
     <<self.paths[Len(self.paths) + 1 - i].key, self.paths[Len(self.paths) + 1 - i].val>>]

\* <Paths as IntoIterator>::into_iter: self.paths.into_iter()
Paths_into_iter(self) ==
  [i \in 1..Len(self.paths) |-> <<self.paths[i].key, self.paths[i].val>>]

-----------------------------------------------------------------------------
(* Bounds and inputs.                                                      *)

\* Largest number of keys of a PathItem source object.
MaxKeys == 3

\* Largest number of keys of a Paths source object.
MaxPaths == 3

K_x_custom == <<"x", "-", "c", "u", "s", "t", "o", "m">>
K_x_ext == <<"x", "-", "e", "x", "t">>
K_slash_p == <<"/", "p">>
K_slash_a == <<"/", "a">>
K_slash == <<"/">>
K_a_slash_b == <<"a", "/", "b">>
K_a == <<"a">>

OpDefault == Operation(<<>>, <<>>)
OpNamed == Operation(<< <<"a">> >>, <<>>)
OpSet == {OpDefault, OpNamed}

Verbs == <<"get", "put", "post", "delete", "options", "head", "patch", "trace">>

\* PathItem { <verb>: Some(Operation::default()), .. Default::default() } for
\* a set of verbs, as tests::test_path_item_iterators builds it.
ConstructedItem(S) ==
  [f \in DOMAIN PathItem_default |->
     IF f \in S THEN <<OpDefault>> ELSE PathItem_default[f]]

ConstructedItems == {ConstructedItem(S) : S \in SUBSET {Verbs[i] : i \in 1..Len(Verbs)}}

RawOpDefault == VObj(<<>>)
RawOpNamed == VObj(<<Entry(N_operationId, VStr(<<"a">>))>>)
RawOpNullId == VObj(<<Entry(N_operationId, VNull)>>)
RawServer == VObj(<<Entry(N_url, VStr(<<"u">>))>>)
RawParam == VObj(<<Entry(N_name, VStr(<<"n">>))>>)
RawRef == VObj(<<Entry(N_ref, VStr(<<"X">>))>>)
RawRefDesc ==
  VObj(<<Entry(N_ref, VStr(<<"X">>)), Entry(N_description, VStr(<<"Y">>))>>)
RawRefNum == VObj(<<Entry(N_ref, VNum(<<"1">>))>>)
RawNum == VNum(<<"1">>)
RawStr == VStr(<<"s">>)

ItemSourceKeys ==
  {N_get, N_post, N_delete, N_summary, N_servers, N_parameters, K_x_custom,
   K_a, K_slash_p}

\* The values a source object may hold under a key: well-typed ones, null or
\* empty ones, and ill-typed ones.
ItemValuesFor(k) ==
  CASE k = N_get -> <<RawOpNullId, VNull, RawNum>>
    [] k \in {N_post, N_delete} -> <<RawOpNullId, VNull>>
    [] k = N_summary -> <<RawStr, VNull, RawNum>>
    [] k = N_servers -> <<VList(<<RawServer>>), VList(<<>>), VNull>>
    [] k = N_parameters ->
         <<VList(<<RawRef, RawParam>>), VList(<<RawRefDesc>>)>>
    [] k = K_x_custom -> <<VObj(<<Entry(K_a, RawNum)>>)>>
    [] OTHER -> <<RawOpDefault>>

ItemValues == [k \in ItemSourceKeys |-> ItemValuesFor(k)]

PathsSourceKeys == {K_slash_a, K_slash, K_x_ext, K_a_slash_b}

\* The values a Paths source may hold under a key: under a '/' key inline
\* records, well-typed and ill-typed, and references; under another key
\* values that would not decode as a path entry.
PathsValuesFor(k) ==
  CASE k \in {K_slash_a, K_slash} ->
         <<VObj(<<Entry(N_post, RawOpNamed), Entry(N_get, RawOpNullId)>>),
           VObj(<<Entry(N_get, RawNum)>>),
           VObj(<<Entry(N_servers, VList(<<>>))>>),
           VObj(<<Entry(K_slash_p, RawOpDefault)>>),
           RawRef, RawRefDesc, RawRefNum>>
    [] k = K_x_ext -> <<RawRefNum, VObj(<<Entry(N_get, RawNum)>>)>>
    [] OTHER -> <<VObj(<<Entry(N_servers, VList(<<>>))>>)>>

PathsValues == [k \in PathsSourceKeys |-> PathsValuesFor(k)]

\* A source object is chosen by its keys ks, in order and unique, and for
\* each key the index vi of one of the values the key may hold.
KeyChoices(n, values) ==
  {ks \in [1..n -> DOMAIN values] : \A i, j \in 1..n : i # j => ks[i] # ks[j]}

\* The indices of the values of a key that may hold the most values.
ChoiceIndex(values) ==
  DOMAIN values[CHOOSE k \in DOMAIN values :
                  \A j \in DOMAIN values : Len(values[j]) <= Len(values[k])]

ValueChoices(ks, values) ==
  {vi \in [DOMAIN ks -> ChoiceIndex(values)] :
     \A i \in DOMAIN ks : vi[i] \in DOMAIN values[ks[i]]}

\* A serde_json::Value as the build holds it: the entries of every object
\* are in the order the Map of the build keeps them.
RECURSIVE value(_, _)
value(v, po) ==
  [kind |-> v.kind,
   str |-> v.str,
   items |-> [i \in 1..Len(v.items) |-> value(v.items[i], po)],
   entries |-> serialize_entries(<<>>,
                 [i \in 1..Len(v.entries) |->
                    Entry(v.entries[i].key, value(v.entries[i].val, po))], po)]

\* The keys are in ascending order.
Ascending(ks) == \A i, j \in DOMAIN ks : i < j => key_lt(ks[i], ks[j])

SourceObject(ks, vi, values, po) ==
  value(VObj([i \in DOMAIN ks |-> Entry(ks[i], values[ks[i]][vi[i]])]), po)

-----------------------------------------------------------------------------
(* The state machine.  preserve_order is the build: whether serde_json is   *)
(* built with its preserve_order feature, so that its Map keeps the order  *)
(* of insertion, or without it, so that its Map keeps its keys sorted; the *)
(* source file does not decide it.  keeps_dynamic is what the extension   *)
(* capture of crate::util does with a '/'-prefixed key, which the source   *)
(* file does not decide either.  src is the source object the record was   *)
(* decoded from (None for a record built in memory, or once the record was *)
(* written to); item and paths are the records; yielded is the sequence    *)
(* the last traversal produced, out the object the last encoding produced, *)
(* and last the last operation.                                            *)

\* Some object of the value tree v has a '/'-prefixed key.
RECURSIVE HasDynamicKey(_)
HasDynamicKey(v) ==
  \/ \E i \in 1..Len(v.entries) :
       path_key_predicate(v.entries[i].key) \/ HasDynamicKey(v.entries[i].val)
  \/ \E i \in 1..Len(v.items) : HasDynamicKey(v.items[i])

\* What the extension capture does with a '/'-prefixed key shows only when
\* it is handed one: for a source without such a key one value stands for
\* both.
CaptureOutcomes(v) == IF HasDynamicKey(v) THEN BOOLEAN ELSE {TRUE}

\* A record built in memory: nothing is decoded, so the extension capture
\* is never called and its outcome is left at one value.
InitConstructed ==
  /\ keeps_dynamic = TRUE
  /\ src = <<>>
  /\ item \in {<<p>> : p \in ConstructedItems}
  /\ last = "new"

InitItemSource ==
  /\ \E n \in 0..MaxKeys :
       \E ks \in KeyChoices(n, ItemValues) :
         \E vi \in ValueChoices(ks, ItemValues) :
           /\ preserve_order \/ Ascending(ks)
           /\ src = <<SourceObject(ks, vi, ItemValues, preserve_order)>>
  /\ keeps_dynamic \in CaptureOutcomes(src[1])
  /\ item = <<>>
  /\ last = "item_source"

InitPathsSource ==
  /\ \E n \in 0..MaxPaths :
       \E ks \in KeyChoices(n, PathsValues) :
         \E vi \in ValueChoices(ks, PathsValues) :
           /\ preserve_order \/ Ascending(ks)
           /\ src = <<SourceObject(ks, vi, PathsValues, preserve_order)>>
  /\ keeps_dynamic \in CaptureOutcomes(src[1])
  /\ item = <<>>
  /\ last = "paths_source"

Init ==
  /\ preserve_order \in BOOLEAN
  /\ paths = <<>>
  /\ yielded = <<>>
  /\ out = <<>>
  /\ (InitConstructed \/ InitItemSource \/ InitPathsSource)

\* serde_json::from_value::<PathItem>(src)
DecodeItem ==
  /\ last = "item_source"
  /\ LET r == deserialize_PathItem(src[1], keeps_dynamic)
     IN IF r.ok
        THEN item' = <<r.val>> /\ last' = "decode"
        ELSE item' = <<>> /\ last' = "decode_err"
  /\ UNCHANGED <<preserve_order, keeps_dynamic, src, paths, yielded, out>>

ItemLive == item # <<>> /\ last # "into_iter"

\* item.iter().collect()
Iter ==
  /\ ItemLive
  /\ yielded' = iter(item[1])
  /\ last' = "iter"
  /\ out' = <<>>
  /\ UNCHANGED <<preserve_order, keeps_dynamic, src, item, paths>>

\* for (n, (_, op)) in item.iter_mut().enumerate() { if n == i { *op = w } },
\* then the pairs as read through the references.  A write of the value the
\* field already holds is the traversal that writes nothing (i = 0).
IterMut ==
  /\ ItemLive
  /\ LET refs == iter_mut(item[1])
     IN \E i \in 0..Len(refs), w \in OpSet :
          LET written == write_through(item[1], refs, i, w)
          IN /\ IF i = 0 THEN w = OpDefault ELSE written # item[1]
             /\ item' = <<written>>
             /\ yielded' = [n \in 1..Len(refs) |-> <<refs[n][1], written[refs[n][2]][1]>>]
             /\ src' = IF written = item[1] THEN src ELSE <<>>
  /\ last' = "iter_mut"
  /\ out' = <<>>
  /\ UNCHANGED <<preserve_order, keeps_dynamic, paths>>

\* item.into_iter().collect(): the record is moved into the iterator; item
\* keeps the value that was moved.
IntoIter ==
  /\ ItemLive
  /\ yielded' = into_iter(item[1])
  /\ last' = "into_iter"
  /\ out' = <<>>
  /\ UNCHANGED <<preserve_order, keeps_dynamic, src, item, paths>>

\* serde_json::to_value(&item)
EncodeItem ==
  /\ ItemLive
  /\ out' = <<serialize_PathItem(item[1], preserve_order)>>
  /\ yielded' = <<>>
  /\ last' = "encode"
  /\ UNCHANGED <<preserve_order, keeps_dynamic, src, item, paths>>

\* serde_json::from_value::<Paths>(src)
DecodePaths ==
  /\ last = "paths_source"
  /\ LET r == deserialize_Paths(src[1], keeps_dynamic)
     IN IF r.ok
        THEN paths' = <<r.val>> /\ last' = "paths_decode"
        ELSE paths' = <<>> /\ last' = "paths_decode_err"
  /\ UNCHANGED <<preserve_order, keeps_dynamic, src, item, yielded, out>>

PathsLive == paths # <<>> /\ last # "paths_into_iter"

\* paths.iter().collect()
PathsIter ==
  /\ PathsLive
  /\ yielded' = Paths_iter(paths[1])
  /\ last' = "paths_iter"
  /\ out' = <<>>
  /\ UNCHANGED <<preserve_order, keeps_dynamic, src, item, paths>>

\* paths.into_iter().collect(): paths keeps the value that was moved.
PathsIntoIter ==
  /\ PathsLive
  /\ yielded' = Paths_into_iter(paths[1])
  /\ last' = "paths_into_iter"
  /\ out' = <<>>
  /\ UNCHANGED <<preserve_order, keeps_dynamic, src, item, paths>>

\* serde_json::to_value(&paths)
EncodePaths ==
  /\ PathsLive
  /\ out' = <<serialize_Paths(paths[1], preserve_order)>>
  /\ yielded' = <<>>
  /\ last' = "paths_encode"
  /\ UNCHANGED <<preserve_order, keeps_dynamic, src, item, paths>>

Next ==
  \/ DecodeItem
  \/ Iter
  \/ IterMut
  \/ IntoIter
  \/ EncodeItem
  \/ DecodePaths
  \/ PathsIter
  \/ PathsIntoIter
  \/ EncodePaths

Spec == Init /\ [][Next]_vars

-----------------------------------------------------------------------------
(* Vocabulary of the properties.                                           *)

\* The canonical verb order, as serde keys; CanonicalOrder[i] is the key of
\* the field Verbs[i].
CanonicalOrder ==
  <<N_get, N_put, N_post, N_delete, N_options, N_head, N_patch, N_trace>>

Rank(name) == CHOOSE i \in 1..Len(CanonicalOrder) : CanonicalOrder[i] = name

\* The indices of the verb fields of p that hold an Operation.
Populated(p) == {i \in 1..Len(Verbs) : p[Verbs[i]] # <<>>}

Names(ys) == [i \in 1..Len(ys) |-> ys[i][1]]

SrcEntries == src[1].entries

SrcKeys == [i \in 1..Len(SrcEntries) |-> SrcEntries[i].key]

\* A value that the source holds under key k and that is not null.
PresentInSource(k) == Lookup(SrcEntries, k) \notin {<<>>, <<VNull>>}

-----------------------------------------------------------------------------
\* C1: PathItem::iter yields one (verb name, Operation) pair for exactly the
\* populated verb fields, each paired with that field's Operation, in the
\* order get, put, post, delete, options, head, patch, trace; for a record
\* decoded from a source object the populated verbs are the verb keys of the
\* source, whatever their order there.
C1_IterCanonical ==
  last = "iter" =>
    LET p == item[1]
        names == Names(yielded)
    IN /\ {names[i] : i \in 1..Len(names)} = {CanonicalOrder[v] : v \in Populated(p)}
       /\ \A i, j \in 1..Len(names) : i < j => Rank(names[i]) < Rank(names[j])
       /\ \A i \in 1..Len(names) : yielded[i][2] = p[Verbs[Rank(names[i])]][1]
       /\ src # <<>> =>
            \A v \in 1..Len(Verbs) :
              (v \in Populated(p)) <=> PresentInSource(CanonicalOrder[v])

\* A record decoded from a source with keys post, get, delete was traversed
\* and yielded get, post, delete.
C1_Witness ==
  /\ last = "iter"
  /\ src # <<>>
  /\ SrcKeys = <<N_post, N_get, N_delete>>
  /\ Names(yielded) = <<N_get, N_post, N_delete>>

\* C2: iter_mut and the consuming into_iter yield the same verb names paired
\* with the same Operations as iter does on the same record.
C2_SameTraversal ==
  last \in {"iter_mut", "into_iter"} => yielded = iter(item[1])

\* Both a consuming and a mutable traversal of a record with three or more
\* populated verbs have happened.
C2_Witness ==
  /\ last = "into_iter"
  /\ Len(yielded) >= Len(<<N_get, N_post, N_delete>>)
  /\ \E i \in 1..Len(yielded) : yielded[i][2] # OpDefault

\* C5: a PathItem with no verb populated yields the empty sequence from each
\* traversal, and the encoded object holds a verb key iff that verb field is
\* populated, never with a null value.
C5_Absence ==
  /\ (last \in {"iter", "iter_mut", "into_iter"} /\ Populated(item[1]) = {})
       => yielded = <<>>
  /\ last = "encode" =>
       \A v \in 1..Len(Verbs) :
         /\ (CanonicalOrder[v] \in Keys(out[1].entries)) <=> (v \in Populated(item[1]))
         /\ Lookup(out[1].entries, CanonicalOrder[v]) # <<VNull>>

\* A record without any verb, decoded from a source that names a verb with
\* a null value, was encoded to a non-empty object.
C5_Witness ==
  /\ last = "encode"
  /\ Populated(item[1]) = {}
  /\ src # <<>>
  /\ \E v \in 1..Len(Verbs) : Lookup(SrcEntries, CanonicalOrder[v]) = <<VNull>>
  /\ out[1].entries # <<>>

\* C10: a traversal by iter or iter_mut, with any write through a reference
\* iter_mut handed out, leaves the set of populated verbs as it was, yields
\* no verb name twice (at most eight pairs) and leaves summary, description,
\* servers, parameters and extensions unchanged.
C10_TraversalFrame ==
  [][last' \in {"iter", "iter_mut"} =>
       /\ Populated(item'[1]) = Populated(item[1])
       /\ Cardinality({yielded'[i][1] : i \in 1..Len(yielded')}) = Len(yielded')
       /\ Len(yielded') <= Len(CanonicalOrder)
       /\ item'[1].summary = item[1].summary
       /\ item'[1].description = item[1].description
       /\ item'[1].servers = item[1].servers
       /\ item'[1].parameters = item[1].parameters
       /\ item'[1].extensions = item[1].extensions]_vars

\* A mutable traversal has changed an Operation of a record that also holds
\* a summary and an extension.
C10_Witness ==
  /\ last = "iter_mut"
  /\ \E i \in 1..Len(yielded) : yielded[i][2] = OpNamed
  /\ src = <<>>
  /\ item[1].extensions # <<>>
  /\ item[1].summary # <<>>

\* A key that starts with '/'.
SlashKey(k) == k # <<>> /\ Head(k) = "/"

SlashEntries == SelectSeq(SrcEntries, LAMBDA e : SlashKey(e.key))

OtherEntries == SelectSeq(SrcEntries, LAMBDA e : ~SlashKey(e.key))

\* C9: Paths::iter and the consuming into_iter both yield exactly the
\* entries of the paths map: one pair per '/'-prefixed key of the source, in
\* source order, each with the decoded node stored under that key; the
\* entry of a key that does not start with '/' is never yielded.
C9_PathsTraversal ==
  last \in {"paths_iter", "paths_into_iter"} =>
    /\ Names(yielded) = [i \in 1..Len(SlashEntries) |-> SlashEntries[i].key]
    /\ Len(yielded) = Len(paths[1].paths)
    /\ \A i \in 1..Len(yielded) :
         /\ yielded[i][1] = paths[1].paths[i].key
         /\ yielded[i][2] = paths[1].paths[i].val
         /\ yielded[i][1] \notin Keys(OtherEntries)

\* A Paths object with an extension between two paths was traversed by the
\* consuming iterator.
C9_Witness ==
  /\ last = "paths_into_iter"
  /\ SrcKeys = <<K_slash_a, K_x_ext, K_slash>>
  /\ Names(yielded) = <<K_slash_a, K_slash>>

\* The object is a reference object: its key set is exactly {"$ref"}.
OnlyRef(v) == v.kind = "obj" /\ Keys(v.entries) = {N_ref}

\* C6: a value in a reference-or-inline position decodes to Reference iff
\* it is an object whose only key is "$ref"; any other object is decoded
\* as Inline by the payload type's own decoder.
C6_ReferenceIffOnlyRef ==
  /\ last = "paths_decode" =>
       \A i \in 1..Len(SlashEntries) :
         LET v == SlashEntries[i].val
             n == paths[1].paths[i].val
         IN /\ (n.variant = "Reference") <=> OnlyRef(v)
            /\ n.variant = "Reference" => VStr(n.reference) = Lookup(v.entries, N_ref)[1]
            /\ n.variant = "Item" => n.item = <<deserialize_PathItem(v, keeps_dynamic).val>>
  /\ last = "decode" =>
       LET ps == Lookup(SrcEntries, N_parameters)
       IN ps # <<>> =>
            \A i \in 1..Len(ps[1].items) :
              LET v == ps[1].items[i]
                  n == item[1].parameters[i]
              IN /\ (n.variant = "Reference") <=> OnlyRef(v)
                 /\ n.variant = "Item" => n.item = <<deserialize_Parameter(v, keeps_dynamic).val>>

\* A Paths entry that holds "$ref" together with "description" was decoded,
\* next to an entry that is a reference.
C6_Witness ==
  /\ last = "paths_decode"
  /\ \E i \in 1..Len(SlashEntries) :
       /\ SlashEntries[i].val = RawRefDesc
       /\ paths[1].paths[i].val.variant = "Item"
  /\ \E i \in 1..Len(SlashEntries) : paths[1].paths[i].val.variant = "Reference"

\* The fixed field names of a PathItem, as the claims list them.
FixedNames ==
  {CanonicalOrder[i] : i \in 1..Len(CanonicalOrder)}
    \cup {N_summary, N_description, N_servers, N_parameters}

\* The value decodes into the declared type of the fixed field k.
FieldDecodes(k, v) ==
  CASE k \in {N_summary, N_description} -> decode_OptionString(v).ok
    [] k = N_servers -> decode_VecServer(v, keeps_dynamic).ok
    [] k = N_parameters -> decode_VecParameter(v, keeps_dynamic).ok
    [] OTHER -> decode_OptionOperation(v, keeps_dynamic).ok

IllTyped == {i \in 1..Len(SrcEntries) :
               /\ SrcEntries[i].key \in FixedNames
               /\ ~FieldDecodes(SrcEntries[i].key, SrcEntries[i].val)}

\* C7: decoding is all-or-nothing: when the value of a fixed field of a
\* PathItem, or of a '/'-keyed entry of a Paths object, does not decode into
\* its declared type, decoding returns an error and produces no record; the
\* offending key is not stored as an extension instead.
C7_AllOrNothing ==
  /\ last = "decode" => IllTyped = {}
  /\ last = "decode_err" => item = <<>> /\ IllTyped # {}
  /\ last = "paths_decode" =>
       \A i \in 1..Len(SlashEntries) : decode_ReferenceOrPathItem(SlashEntries[i].val, keeps_dynamic).ok
  /\ last = "paths_decode_err" => paths = <<>>

\* A PathItem source with a summary that is not a string, next to a
\* well-typed verb, was rejected.
C7_Witness ==
  /\ last = "decode_err"
  /\ Lookup(SrcEntries, N_summary) = <<RawNum>>
  /\ Lookup(SrcEntries, N_get) = <<RawOpNullId>>

KeysOf(es) == [i \in 1..Len(es) |-> es[i].key]

RECURSIVE ValueEq(_, _)
ValueEq(a, b) ==
  /\ a.kind = b.kind
  /\ a.str = b.str
  /\ Len(a.items) = Len(b.items)
  /\ \A i \in 1..Len(a.items) : ValueEq(a.items[i], b.items[i])
  /\ Len(a.entries) = Len(b.entries)
  /\ Keys(a.entries) = Keys(b.entries)
  /\ \A k \in Keys(a.entries) :
       ValueEq(Lookup(a.entries, k)[1], Lookup(b.entries, k)[1])

FixedKeysOf(es) == KeysOf(SelectSeq(es, LAMBDA e : e.key \in FixedNames))
ExtensionKeysOf(es) == KeysOf(SelectSeq(es, LAMBDA e : e.key \notin FixedNames))
SlashKeysOf(es) == KeysOf(SelectSeq(es, LAMBDA e : SlashKey(e.key)))
OtherKeysOf(es) == KeysOf(SelectSeq(es, LAMBDA e : ~SlashKey(e.key)))

Absent(k, v) ==
  IF k \in {N_servers, N_parameters} THEN v = VList(<<>>) ELSE v = VNull

\* What the declared type of the fixed field k gives back for a source value
\* v that it decodes: a string for summary and description, and for the
\* other fields the payload type's own decoding followed by its encoding.
FieldRoundTrip(k, v) ==
  CASE k \in {N_summary, N_description} -> v
    [] k = N_servers ->
         VList([i \in 1..Len(v.items) |->
                  serialize_Server(deserialize_Server(v.items[i], keeps_dynamic).val, preserve_order)])
    [] k = N_parameters ->
         VList([i \in 1..Len(v.items) |->
                  serialize_ReferenceOrParameter(
                    decode_ReferenceOrParameter(v.items[i], keeps_dynamic).val, preserve_order)])
    [] OTHER -> serialize_Operation(deserialize_Operation(v, keeps_dynamic).val, preserve_order)

\* What decoding and encoding a PathItem source object gives, key by key.
ItemRoundTrips(o, s) ==
  /\ Keys(o.entries) =
       {k \in Keys(s.entries) :
          /\ ~(k \in FixedNames /\ Absent(k, Lookup(s.entries, k)[1]))
          /\ SlashKey(k) => keeps_dynamic}
  /\ Len(o.entries) = Cardinality(Keys(o.entries))
  /\ \A k \in Keys(o.entries) :
       Lookup(o.entries, k)[1] =
         IF k \in FixedNames THEN FieldRoundTrip(k, Lookup(s.entries, k)[1])
         ELSE Lookup(s.entries, k)[1]

\* The keys of es are in ascending order.
Sorted(es) == \A i, j \in 1..Len(es) : i < j => key_lt(es[i].key, es[j].key)

\* The fixed keys of es are in declaration order.
InDeclarationOrder(es) ==
  \A i, j \in 1..Len(es) :
    (i < j /\ es[i].key \in FixedNames /\ es[j].key \in FixedNames) =>
      \E a, b \in 1..Len(PathItemFieldOrder) :
        a < b /\ PathItemFieldOrder[a] = es[i].key /\ PathItemFieldOrder[b] = es[j].key

====
